---- MODULE Spec2Model ----
(***************************************************************************)
(* barnstormers-feed: the digest run of scraper.py (read target URLs, load *)
(* the seen-set, fetch and extract every target page, merge, filter, sort, *)
(* enrich, render, send, persist) as a state machine over repeated runs,   *)
(* and the pagination loop of the scrapers' search_listings.               *)
(*                                                                         *)
(* Python strings are sequences of tokens (TLA+ strings).  A token is one  *)
(* character wherever the code looks at characters (identifiers, titles,   *)
(* whitespace) and a longer chunk elsewhere.  None is the value NoneVal.   *)
(***************************************************************************)
EXTENDS Integers, Sequences, FiniteSets, TLC

VARIABLES
    urlsFile,    \* content of URLS_FILE: Missing, or a sequence of lines
    seenFile,    \* content of SEEN_FILE: [kind, items]
    site,        \* what each target URL answers during the current run
    pc,          \* position of main(): "start","fetch","filter","enrich","send","done"
    exitCode,    \* process exit status of the finished run (-1 while running)
    urls,        \* main: urls
    seen,        \* main: seen_list as loaded
    idx,         \* main: index of the next target URL of the for loop
    all_ads,     \* main: all_ads, an insertion-ordered dict as a sequence of ads
    new_ads,     \* main: new_ads
    details,     \* main: details
    sent,        \* the message handed to SMTP and accepted in this run, or NoMail
    log,         \* observation of the run and of the previous one (history)
    scraper,     \* search_listings: the scraper class whose method runs
    catalog,     \* search_listings: what the site answers for page 1, 2, ...
    listing_urls,\* search_listings: listing_urls
    pageNo,      \* search_listings: page
    spc,         \* search_listings: "idle", "loop" or "returned"
    events       \* search_listings: the fetches and sleeps so far (history)

\* the variables of main() and those of search_listings
mainVars == <<urlsFile, seenFile, site, pc, exitCode, urls, seen, idx, all_ads,
              new_ads, details, sent, log>>
searchVars == <<scraper, catalog, listing_urls, pageNo, spc, events>>

vars == <<mainVars, searchVars>>

----------------------------------------------------------------------------
(* Program constants.  Both caps are read from the environment            *)
(* (MAX_EMAIL_ITEMS, SEEN_CAP); the model runs with small configured      *)
(* values so that both caps are exceeded.                                 *)

MAX_EMAIL_ITEMS == 2
SEEN_CAP == 3
IMAGE_CAP == 6
PREVIEW_LEN == 260

NoneVal == <<"None">>
BASE == <<"https://", "www.barnstormers.com">>

----------------------------------------------------------------------------
(* Strings *)

Whitespace == {" ", "\t", "\n"}
DecimalDigits == {"0", "1", "2", "3", "4", "5", "6", "7", "8", "9"}
\* characters for which str.isdigit() is true: the decimal digits and other
\* digit characters such as SUPERSCRIPT TWO, which int() does not accept
OtherDigits == {"sup2"}

DigitValue(c) ==
    CASE c = "0" -> 0 [] c = "1" -> 1 [] c = "2" -> 2 [] c = "3" -> 3
      [] c = "4" -> 4 [] c = "5" -> 5 [] c = "6" -> 6 [] c = "7" -> 7
      [] c = "8" -> 8 [] c = "9" -> 9

Min(a, b) == IF a <= b THEN a ELSE b

Range(s) == {s[i] : i \in 1..Len(s)}

Take(s, n) == SubSeq(s, 1, Min(n, Len(s)))

RECURSIVE LStrip(_)
LStrip(s) ==
    IF s # <<>> /\ Head(s) \in Whitespace THEN LStrip(Tail(s)) ELSE s

RECURSIVE RStrip(_)
RStrip(s) ==
    IF s # <<>> /\ s[Len(s)] \in Whitespace
    THEN RStrip(SubSeq(s, 1, Len(s) - 1))
    ELSE s

\* str.strip()
Strip(s) == RStrip(LStrip(s))

\* truthiness of an Optional[str]: None and "" are false
Truthy(v) == v # NoneVal /\ v # <<>>

\* Python's `a or b`
Or(a, b) == IF Truthy(a) THEN a ELSE b

\* str.isdigit()
isdigit(s) == s # <<>> /\ \A i \in 1..Len(s) : s[i] \in DecimalDigits \cup OtherDigits

ValueError == -1

RECURSIVE DecimalValue(_)
DecimalValue(s) ==
    IF s = <<>> THEN 0
    ELSE 10 * DecimalValue(SubSeq(s, 1, Len(s) - 1)) + DigitValue(s[Len(s)])

\* int(x) of a str: surrounding whitespace is ignored, decimal digits are
\* read in base 10, anything else raises ValueError
int(x) ==
    LET s == Strip(x)
    IN  IF s # <<>> /\ \A i \in 1..Len(s) : s[i] \in DecimalDigits
        THEN DecimalValue(s)
        ELSE ValueError

\* re.sub(r"\s+", " ", s)
RECURSIVE CollapseWs(_)
CollapseWs(s) ==
    IF s = <<>> THEN <<>>
    ELSE IF Head(s) \in Whitespace
         THEN <<" ">> \o CollapseWs(LStrip(s))
         ELSE <<Head(s)>> \o CollapseWs(Tail(s))

----------------------------------------------------------------------------
(* Models: AdDetail and the HTML elements the parsers look at *)

AdDetail(ad_id, title, url, price, location, posted, description, images) ==
    [ad_id |-> ad_id, title |-> title, url |-> url, price |-> price,
     location |-> location, posted |-> posted, description |-> description,
     images |-> images]

\* <div class="classified_single" ...>: its data-adid attribute, its
\* a.listing_header (href attribute, text), span.body, span.contact, the src of
\* its img.thumbnail[src] elements and the rest of its text
Div(hasAdid, adid, hasAnchor, href, text, hasBody, body, contact, thumbs, other) ==
    [kind |-> "div", hasAdid |-> hasAdid, adid |-> adid, hasAnchor |-> hasAnchor,
     href |-> href, text |-> text, hasBody |-> hasBody, body |-> body,
     contact |-> contact, thumbs |-> thumbs, other |-> other]

\* <a href=...>text</a> outside any classified_single block
Anchor(href, text) ==
    [kind |-> "a", hasAdid |-> FALSE, adid |-> <<>>, hasAnchor |-> TRUE,
     href |-> href, text |-> text, hasBody |-> FALSE, body |-> <<>>,
     contact |-> <<>>, thumbs |-> <<>>, other |-> <<>>]

----------------------------------------------------------------------------
(* HTTP and parsing helpers *)

normalize_url(href) ==
    IF href # <<>> /\ Head(href) \in {"http://", "https://"} THEN href
    ELSE IF href # <<>> /\ Head(href) = "/" THEN BASE \o href
    ELSE BASE \o <<"/">> \o href

\* one str.replace(old, new) where old and new are token sequences
RECURSIVE Replace(_, _, _)
Replace(s, old, new) ==
    IF Len(s) < Len(old) THEN s
    ELSE IF SubSeq(s, 1, Len(old)) = old
         THEN new \o Replace(SubSeq(s, Len(old) + 1, Len(s)), old, new)
         ELSE <<Head(s)>> \o Replace(Tail(s), old, new)

thumbnail_to_large(url) ==
    IF url = <<>> THEN url
    ELSE Replace(Replace(url, <<"/thumbnail/", "thumbnail_image_">>,
                              <<"/large/", "large_image_">>),
                 <<"/thumbnail/">>, <<"/large/">>)

\* tokens that hold a "."
DotTokens == {".00", ".50", ".5", "."}

normalize_money(val) ==
    LET s  == Strip(val)
        s1 == IF \E i \in 1..Len(s) : s[i] \in DotTokens THEN s ELSE s \o <<".00">>
    IN  IF s = <<>> THEN s
        ELSE IF Head(s1) # "$" THEN <<"$">> \o s1 ELSE s1

\* re.sub(r"[ \t]+", " ", text)
RECURSIVE CollapseBlanks(_)
CollapseBlanks(s) ==
    IF s = <<>> THEN <<>>
    ELSE IF Head(s) \in {" ", "\t"}
         THEN IF Len(s) > 1 /\ s[2] \in {" ", "\t"}
              THEN CollapseBlanks(Tail(s))
              ELSE <<" ">> \o CollapseBlanks(Tail(s))
         ELSE <<Head(s)>> \o CollapseBlanks(Tail(s))

\* re.sub(r"\n{3,}", "\n\n", text)
RECURSIVE CollapseNewlines(_)
CollapseNewlines(s) ==
    IF s = <<>> THEN <<>>
    ELSE IF Len(s) >= 3 /\ s[1] = "\n" /\ s[2] = "\n" /\ s[3] = "\n"
         THEN CollapseNewlines(Tail(s))
         ELSE <<Head(s)>> \o CollapseNewlines(Tail(s))

clean_desc(text) ==
    IF text = <<>> THEN text
    ELSE Strip(CollapseNewlines(CollapseBlanks(
             Replace(Replace(text, <<"\r", "\n">>, <<"\n">>), <<"\r">>, <<"\n">>))))

\* least index >= k of s that holds no whitespace (Len(s) + 1 if none)
RECURSIVE SkipWs(_, _)
SkipWs(s, k) ==
    IF k <= Len(s) /\ s[k] \in Whitespace THEN SkipWs(s, k + 1) ELSE k

\* the least member of a non-empty set of integers
Least(S) == CHOOSE i \in S : \A j \in S : i <= j

\* PRICE_RE: "Price", whitespace, [\d,]+ and an optional .dd; IGNORECASE
PriceWords == {"Price", "price", "PRICE"}
MoneyWhole == {"1250", "1,250", "900"}
MoneyCents == {".00", ".50"}

\* m.group(1) of PRICE_RE.search(text), NoneVal when there is no match
PRICE_RE(text) ==
    LET M == {i \in 1..Len(text) :
                 /\ text[i] \in PriceWords
                 /\ i + 1 <= Len(text) /\ text[i + 1] \in Whitespace
                 /\ SkipWs(text, i + 1) <= Len(text)
                 /\ text[SkipWs(text, i + 1)] \in MoneyWhole}
    IN  IF M = {} THEN NoneVal
        ELSE LET j == SkipWs(text, Least(M) + 1)
             IN  IF j + 1 <= Len(text) /\ text[j + 1] \in MoneyCents
                 THEN <<text[j], text[j + 1]>>
                 ELSE <<text[j]>>

\* POSTED_RE: "Posted", whitespace, "Month d, yyyy"; case-sensitive
DateTokens == {"January 5, 2026"}

POSTED_RE(text) ==
    LET M == {i \in 1..Len(text) :
                 /\ text[i] = "Posted"
                 /\ i + 1 <= Len(text) /\ text[i + 1] \in Whitespace
                 /\ SkipWs(text, i + 1) <= Len(text)
                 /\ text[SkipWs(text, i + 1)] \in DateTokens}
    IN  IF M = {} THEN NoneVal ELSE <<text[SkipWs(text, Least(M) + 1)]>>

\* LOC_IN_BODY_RE: the first "City, ST"
CityTokens == {"Bisbee, AZ"}

LOC_IN_BODY_RE(text) ==
    LET M == {i \in 1..Len(text) : text[i] \in CityTokens}
    IN  IF M = {} THEN NoneVal ELSE <<text[Least(M)]>>

\* LOC_IN_CONTACT_RE: "located", whitespace, the shortest non-empty text,
\* whitespace, "United States"; IGNORECASE
LocatedWords == {"located", "Located"}

LOC_IN_CONTACT_RE(text) ==
    LET Ends(i) == {k \in (SkipWs(text, i + 1) + 2)..Len(text) :
                       text[k] = "United States" /\ text[k - 1] \in Whitespace}
        M == {i \in 1..Len(text) :
                 /\ text[i] \in LocatedWords
                 /\ i + 1 <= Len(text) /\ text[i + 1] \in Whitespace
                 /\ Ends(i) # {}}
    IN  IF M = {} THEN NoneVal
        ELSE LET i == Least(M)
                 j == SkipWs(text, i + 1)
                 k == Least(Ends(i))
             IN  RStrip(SubSeq(text, j, k - 1))

\* order-preserving removal of duplicates and of empty entries
RECURSIVE Dedupe(_, _)
Dedupe(s, seenSet) ==
    IF s = <<>> THEN <<>>
    ELSE IF Head(s) # <<>> /\ Head(s) \notin seenSet
         THEN <<Head(s)>> \o Dedupe(Tail(s), seenSet \cup {Head(s)})
         ELSE Dedupe(Tail(s), seenSet)

\* the strings of a sequence, joined by single blanks (get_text(" ", strip=True))
RECURSIVE JoinText(_)
JoinText(parts) ==
    IF parts = <<>> THEN <<>>
    ELSE IF Strip(Head(parts)) = <<>> THEN JoinText(Tail(parts))
    ELSE IF JoinText(Tail(parts)) = <<>> THEN Strip(Head(parts))
    ELSE Strip(Head(parts)) \o <<" ">> \o JoinText(Tail(parts))

\* the None that parse_classified_single returns
NoAd == AdDetail(NoneVal, <<>>, <<>>, NoneVal, NoneVal, NoneVal, NoneVal, <<>>)

\* the images of a block: non-empty src, rewritten, deduplicated, capped
RECURSIVE LargeImages(_)
LargeImages(thumbs) ==
    IF thumbs = <<>> THEN <<>>
    ELSE IF Strip(Head(thumbs)) = <<>> THEN LargeImages(Tail(thumbs))
    ELSE <<thumbnail_to_large(Strip(Head(thumbs)))>> \o LargeImages(Tail(thumbs))

parse_classified_single(div) ==
    LET ad_id == Strip(IF div.hasAdid THEN div.adid ELSE <<>>)
        title == Strip(CollapseWs(Strip(div.text)))
        description == IF div.hasBody THEN clean_desc(Strip(div.body)) ELSE NoneVal
        price == IF Truthy(description) /\ PRICE_RE(description) # NoneVal
                 THEN normalize_money(PRICE_RE(description))
                 ELSE NoneVal
        div_text == JoinText(<<div.text, div.body, div.contact, div.other>>)
        posted == POSTED_RE(div_text)
        contact_text == Strip(div.contact)
        location == IF LOC_IN_CONTACT_RE(contact_text) # NoneVal
                    THEN Strip(CollapseWs(LOC_IN_CONTACT_RE(contact_text)))
                    ELSE IF Truthy(description)
                         THEN LOC_IN_BODY_RE(description)
                         ELSE NoneVal
        images == Take(Dedupe(LargeImages(div.thumbs), {}), IMAGE_CAP)
    IN  IF ~isdigit(ad_id) THEN NoAd
        ELSE IF ~div.hasAnchor \/ ~Truthy(div.href) THEN NoAd
        ELSE IF Len(title) < 3 THEN NoAd
        ELSE AdDetail(ad_id, title, normalize_url(div.href), price, location,
                      posted, description, images)

----------------------------------------------------------------------------
(* extract_ads_from_listing_page.  A page is the sequence of its           *)
(* classified_single blocks and free anchors in document order; a Dict is  *)
(* the sequence of its values in insertion order, keyed by ad_id.          *)

Keys(d) == {d[i].ad_id : i \in 1..Len(d)}

\* fault: a present key keeps its old value (dict.setdefault)
DictSetKeepsFirst(d, ad) ==
    IF ad.ad_id \in Keys(d) THEN d ELSE Append(d, ad)

\* d[ad.ad_id] = ad: a present key keeps its place, a new key goes last
DictSet(d, ad) ==
    IF ad.ad_id \in Keys(d)
    THEN [i \in 1..Len(d) |-> IF d[i].ad_id = ad.ad_id THEN ad ELSE d[i]]
    ELSE Append(d, ad)

\* dict.update(other)
RECURSIVE DictUpdate(_, _)
DictUpdate(d, other) ==
    IF other = <<>> THEN d
    ELSE DictUpdate(DictSet(d, Head(other)), Tail(other))

\* the loop over soup.select('div.classified_single[data-adid]')
RECURSIVE StructuredScan(_, _)
StructuredScan(page, ads) ==
    IF page = <<>> THEN ads
    ELSE LET el == Head(page)
             ad == parse_classified_single(el)
         IN  IF el.kind = "div" /\ el.hasAdid /\ ad # NoAd /\ ad.ad_id \notin Keys(ads)
             THEN StructuredScan(Tail(page), Append(ads, ad))
             ELSE StructuredScan(Tail(page), ads)

\* m.group(1) of re.search(r"/classified-(\d+)-", full), NoneVal without a match
ClassifiedId(full) ==
    LET DigitsEnd(k) == Least({j \in k..(Len(full) + 1) :
                                  j > Len(full) \/ full[j] \notin DecimalDigits})
        M == {i \in 1..Len(full) :
                 /\ full[i] = "/"
                 /\ i + 2 <= Len(full)
                 /\ full[i + 1] = "classified-"
                 /\ full[i + 2] \in DecimalDigits
                 /\ DigitsEnd(i + 2) <= Len(full)
                 /\ full[DigitsEnd(i + 2)] = "-"}
    IN  IF M = {} THEN NoneVal
        ELSE SubSeq(full, Least(M) + 2, DigitsEnd(Least(M) + 2) - 1)

\* lines 222-235: the record an anchor yields, NoAd when it is skipped
parse_anchor(a) ==
    LET full  == normalize_url(a.href)
        ad_id == ClassifiedId(full)
        title == Strip(CollapseWs(Strip(a.text)))
    IN  IF ~a.hasAnchor \/ a.href = NoneVal THEN NoAd
        ELSE IF "classified-" \notin Range(a.href) THEN NoAd
        ELSE IF ad_id = NoneVal THEN NoAd
        ELSE IF Len(title) < 3 THEN NoAd
        ELSE AdDetail(ad_id, title, full, NoneVal, NoneVal, NoneVal, NoneVal, <<>>)

\* the loop over soup.find_all("a", href=True)
RECURSIVE AnchorScan(_, _)
AnchorScan(page, ads) ==
    IF page = <<>> THEN ads
    ELSE LET ad == parse_anchor(Head(page))
         IN  IF ad # NoAd /\ ad.ad_id \notin Keys(ads)
             THEN AnchorScan(Tail(page), Append(ads, ad))
             ELSE AnchorScan(Tail(page), ads)

\* fault: the anchor scan runs after the structured scan in every case
extract_ads_scanning_links_always(html) ==
    AnchorScan(html, StructuredScan(html, <<>>))

extract_ads_from_listing_page(html) ==
    LET ads == StructuredScan(html, <<>>)
    IN  IF ads = <<>> THEN AnchorScan(html, <<>>) ELSE ads

----------------------------------------------------------------------------
(* Digest builders *)

\* the stable insertion of x into a list sorted by descending key
RECURSIVE InsertDesc(_, _)
InsertDesc(sorted, x) ==
    IF sorted = <<>> THEN <<x>>
    ELSE IF int(Head(sorted).ad_id) >= int(x.ad_id)
         THEN <<Head(sorted)>> \o InsertDesc(Tail(sorted), x)
         ELSE <<x>> \o sorted

RECURSIVE StableSortDesc(_, _)
StableSortDesc(ads, acc) ==
    IF ads = <<>> THEN acc
    ELSE StableSortDesc(Tail(ads), InsertDesc(acc, Head(ads)))

\* sorted(ads, key=lambda a: int(a.ad_id), reverse=True); defined when no
\* int() raises
sort_newest_first(ads) == StableSortDesc(ads, <<>>)

\* whether a key function int(...) raises on some member
SortRaises(ids) == \E x \in ids : int(x) = ValueError

\* fault: reverse=True is missing, the smallest ids are kept
trim_seen_ids_ascending(seen_ids, cap) ==
    LET n == Cardinality(seen_ids)
        orders == {f \in [1..n -> seen_ids] :
                      /\ \A i, j \in 1..n : i # j => f[i] # f[j]
                      /\ \A i \in 1..(n - 1) : int(f[i]) <= int(f[i + 1])}
    IN  {Take(f, cap) : f \in orders}

\* sorted(seen_ids, key=lambda x: int(x), reverse=True)[:cap] over a set: the
\* sort is stable over the set's iteration order, which Python leaves open, so
\* ids of equal value may come out in either order
trim_seen_ids(seen_ids, cap) ==
    LET n == Cardinality(seen_ids)
        orders == {f \in [1..n -> seen_ids] :
                      /\ \A i, j \in 1..n : i # j => f[i] # f[j]
                      /\ \A i \in 1..(n - 1) : int(f[i]) >= int(f[i + 1])}
    IN  {Take(f, cap) : f \in orders}

html_escape(s) ==
    LET t == IF s = NoneVal THEN <<>> ELSE s
    IN  Replace(Replace(Replace(t, <<"&">>, <<"&amp;">>), <<"<">>, <<"&lt;">>),
                <<">">>, <<"&gt;">>)

truncate(s, n) ==
    LET t == IF s = NoneVal THEN <<>> ELSE s
    IN  IF Len(t) <= n THEN t ELSE RStrip(SubSeq(t, 1, n - 1)) \o <<"...">>

PRICE_NA == <<"Price N/A">>

\* the two lines build_digest_text writes for one ad
TextItem(ad) == [title |-> ad.title, price |-> Or(ad.price, PRICE_NA), url |-> ad.url]

build_digest_text(ads) ==
    [count |-> Len(ads),
     items |-> [i \in 1..Min(MAX_EMAIL_ITEMS, Len(ads)) |-> TextItem(ads[i])],
     note  |-> IF Len(ads) > MAX_EMAIL_ITEMS
               THEN <<MAX_EMAIL_ITEMS, Len(ads)>>
               ELSE <<>>]

render_card(ad) ==
    [price  |-> html_escape(Or(ad.price, PRICE_NA)),
     title  |-> html_escape(ad.title),
     loc    |-> html_escape(Or(ad.location, <<>>)),
     posted |-> html_escape(Or(ad.posted, <<>>)),
     desc_preview |-> html_escape(truncate(Or(ad.description, <<>>), PREVIEW_LEN)),
     hero   |-> IF ad.images # <<>> THEN ad.images[1] ELSE <<>>,
     url    |-> ad.url]

build_digest_html(ads) ==
    [count |-> Len(ads),
     cards |-> [i \in 1..Min(MAX_EMAIL_ITEMS, Len(ads)) |-> render_card(ads[i])]]

----------------------------------------------------------------------------
(* Enrichment *)

\* soup.select_one('div.classified_single[data-adid="<ad_id>"]'): the first
\* block whose attribute equals ad_id, NoAd's shape when there is none
RECURSIVE select_one(_, _)
select_one(page, ad_id) ==
    IF page = <<>> THEN <<>>
    ELSE IF Head(page).kind = "div" /\ Head(page).hasAdid /\ Head(page).adid = ad_id
         THEN <<Head(page)>>
         ELSE select_one(Tail(page), ad_id)

\* fault: the merge prefers the original's values to the fresh ones
enrich_keeping_original(ad, html) ==
    LET div    == select_one(html, ad.ad_id)
        parsed == parse_classified_single(div[1])
    IN  IF div # <<>> /\ parsed # NoAd
        THEN AdDetail(ad.ad_id,
                      Or(ad.title, parsed.title),
                      ad.url,
                      Or(ad.price, parsed.price),
                      Or(ad.location, parsed.location),
                      Or(ad.posted, parsed.posted),
                      Or(ad.description, parsed.description),
                      IF ad.images # <<>> THEN ad.images ELSE parsed.images)
        ELSE ad

\* enrich_from_classified_page(ad) when fetch(ad.url) returned html
enrich_from_classified_page(ad, html) ==
    LET div    == select_one(html, ad.ad_id)
        parsed == parse_classified_single(div[1])
    IN  IF div # <<>> /\ parsed # NoAd
        THEN AdDetail(ad.ad_id,
                      Or(parsed.title, ad.title),
                      ad.url,
                      Or(parsed.price, ad.price),
                      Or(parsed.location, ad.location),
                      Or(parsed.posted, ad.posted),
                      Or(parsed.description, ad.description),
                      IF parsed.images # <<>> THEN parsed.images ELSE ad.images)
        ELSE ad

\* main's test `ad.price and ad.description and ad.images`
HasAllDetails(ad) == Truthy(ad.price) /\ Truthy(ad.description) /\ ad.images # <<>>

----------------------------------------------------------------------------
(* IO helpers *)

\* read_urls on an existing file
RECURSIVE read_urls(_)
read_urls(lines) ==
    IF lines = <<>> THEN <<>>
    ELSE LET s == Strip(Head(lines))
         IN  IF s = <<>> \/ Head(s) = "#"
             THEN read_urls(Tail(lines))
             ELSE <<s>> \o read_urls(Tail(lines))

\* load_seen on a file json.load accepts (or on no file)
load_seen(file) ==
    IF file.kind = "absent" THEN <<>>
    ELSE IF file.kind # "list" THEN <<>>
    ELSE file.items

\* whether load_seen raises: the file exists and is no JSON document
LoadRaises(file) == file.kind = "malformed"

\* what save_seen leaves in the file
save_seen(seen_ids) == [kind |-> "list", items |-> seen_ids]

----------------------------------------------------------------------------
(* The environment: configuration files, target pages, ad pages *)

U1 == <<"https://", "www.barnstormers.com", "/", "cat.php?id=1">>
U2 == <<"https://", "www.barnstormers.com", "/", "cat.php?id=2">>

NoUrlsFile  == [exists |-> FALSE, lines |-> <<>>]
BlankUrls   == [exists |-> TRUE, lines |-> << <<"#", " ", "none">>, <<" ", "\n">> >>]
TwoUrls     == [exists |-> TRUE,
                lines |-> << <<"#", " ", "searches", "\n">>, U1 \o <<"\n">>,
                             <<"\n">>, <<" ">> \o U2 \o <<" ", "\n">> >>]
UrlFiles == {NoUrlsFile, BlankUrls, TwoUrls}

Targets == {U1, U2}

AbsentFile    == [kind |-> "absent", items |-> <<>>]
MalformedFile == [kind |-> "malformed", items |-> <<>>]
NotListFile   == [kind |-> "notlist", items |-> <<>>]
\* a JSON list load_seen accepts whose entry is not an integer: [1.5]
ForeignList   == [kind |-> "list", items |-> << <<"1", ".", "5">> >>]
InitialSeenFiles == {AbsentFile, MalformedFile, NotListFile, ForeignList}

Thumb(name) == <<"https://", "s3", "/thumbnail/", "thumbnail_image_", name>>

Div10 ==
    Div(TRUE, <<"1", "0">>, TRUE, <<"/", "classified-", "1", "0", "-", "rv.html">>,
        <<"R", "V", "-", "1", "0">>,
        TRUE, <<"IFR", "\t", " ", "Price", " ", "1,250", ".50", "\n", "\n", "\n",
                "Bisbee, AZ">>,
        <<"Located", " ", "Tucson", " ", " ", "AZ", " ", "United States">>,
        <<Thumb("a.jpg"), Thumb("a.jpg"), Thumb("b.jpg")>>,
        <<"Posted", " ", "January 5, 2026">>)

\* a later block of the same page with the id of Div10
Div10Again ==
    Div(TRUE, <<"1", "0">>, TRUE, <<"/", "classified-", "1", "0", "-", "b.html">>,
        <<"R", "V", "1", "0", " ", "b">>, FALSE, <<>>, <<>>, <<>>, <<>>)

\* the ad 10 as another category page shows it: no images
Div10Other ==
    Div(TRUE, <<"1", "0">>, TRUE, <<"/", "classified-", "1", "0", "-", "rv.html">>,
        <<"R", "V", "-", "1", "0", " ", "&", " ", "c">>,
        TRUE, <<"price", " ", "900">>, <<>>, <<>>, <<>>)

Div07 ==
    Div(TRUE, <<" ", "0", "7", " ">>, TRUE, <<"classified-", "0", "7", "-", "x.html">>,
        <<" ", "R", "V", " ", " ", "7">>, FALSE, <<>>, <<>>, <<>>, <<>>)

Div5 ==
    Div(TRUE, <<"5">>, TRUE,
        <<"https://", "www.barnstormers.com", "/", "classified-", "5", "-", "y.html">>,
        <<"R", "V", "<", "5", ">">>,
        TRUE, <<"Bisbee, AZ", " ", "O-320">>, <<>>, <<Thumb("c.jpg")>>, <<>>)

\* the ad 7: its id has the numeric value of "07"; all details are present
Div7 ==
    Div(TRUE, <<"7">>, TRUE, <<"/", "classified-", "7", "-", "w.html">>,
        <<"R", "V", "-", "7">>,
        TRUE, <<"Price", " ", "900">>, <<>>, <<Thumb("e.jpg")>>, <<>>)

\* a block whose data-adid is a digit character that is no decimal digit
DivSup2 ==
    Div(TRUE, <<"sup2">>, TRUE, <<"/", "classified-", "2", "-", "s.html">>,
        <<"R", "V", " ", "s", "q">>, FALSE, <<>>, <<>>, <<>>, <<>>)

\* a block without data-adid that has a price, images and a header link
DivLost ==
    Div(FALSE, <<>>, TRUE, <<"/", "classified-", "5", "-", "y.html">>,
        <<"R", "V", "-", "5">>,
        TRUE, <<"Price", " ", "900">>, <<>>, <<Thumb("c.jpg")>>, <<>>)

\* blocks that yield no record: no data-adid, a non-numeric id, no header
\* anchor, an empty href, a title of two characters
DivNoAdid ==
    Div(FALSE, <<>>, TRUE, <<"/", "classified-", "5", "-", "y.html">>,
        <<"R", "V", "-", "5">>, FALSE, <<>>, <<>>, <<>>, <<>>)
DivTiny ==
    Div(TRUE, <<"9">>, TRUE, <<"/", "classified-", "9", "-", "z.html">>,
        <<" ", "R", "V", " ">>, FALSE, <<>>, <<>>, <<>>, <<>>)

PageA == <<Div10, Div10Again, Div07, Anchor(<<"/", "classified-", "9", "-", "z.html">>,
                                            <<"R", "V", "-", "9">>)>>
PageB == <<DivNoAdid, Div10Other, Div5>>
\* no block yields a record: the anchors are scanned
PageC == <<DivTiny,
           Anchor(<<"/", "about.html">>, <<"A", "b", "o", "u", "t">>),
           Anchor(<<"/", "classified-", "9", "-", "z.html">>, <<"R", "V", "-", "9">>),
           Anchor(<<"classified-", "9", "-", "z.html">>, <<"R", "V", "9", "9">>),
           DivLost>>
PageD == <<Div7>>
PageE == <<DivSup2>>
PageNone == <<>>

FetchError == [kind |-> "error", page |-> <<>>]
Unparsable == [kind |-> "unparsable", page |-> <<>>]
Html(page) == [kind |-> "html", page |-> page]

\* what a target URL can answer: a failed request, markup the parser
\* rejects, or one of the pages
Answers == {"error", "unparsable", "PageA", "PageB", "PageC", "PageD", "PageE",
            "PageNone"}

Answer(name) ==
    CASE name = "error"      -> FetchError
      [] name = "unparsable" -> Unparsable
      [] name = "PageA"      -> Html(PageA)
      [] name = "PageB"      -> Html(PageB)
      [] name = "PageC"      -> Html(PageC)
      [] name = "PageD"      -> Html(PageD)
      [] name = "PageE"      -> Html(PageE)
      [] name = "PageNone"   -> Html(PageNone)

Sites == [Targets -> Answers]

\* the ad's own page: the full block, a block with a price only, a block
\* that does not parse, and a page without the block
AdBlockFull(ad_id) ==
    Div(TRUE, ad_id, TRUE, <<"/", "classified-">> \o ad_id \o <<"-", "own.html">>,
        <<"R", "V", " ", "f", "u", "l", "l">>,
        TRUE, <<"Price", " ", "1250", " ", "<b>">>, <<>>, <<Thumb("d.jpg")>>, <<>>)
AdBlockPrice(ad_id) ==
    Div(TRUE, ad_id, TRUE, <<"/", "classified-">> \o ad_id \o <<"-", "own.html">>,
        <<"R", "V", " ", "p">>,
        TRUE, <<"PRICE", " ", "900", ".00">>, <<>>, <<>>, <<>>)
AdBlockBad(ad_id) ==
    Div(TRUE, ad_id, FALSE, NoneVal, <<>>, TRUE, <<"Price", " ", "900">>, <<>>, <<>>, <<>>)

AdAnswers(ad) ==
    {FetchError, Unparsable,
     Html(<<AdBlockFull(ad.ad_id)>>),
     Html(<<DivNoAdid, AdBlockPrice(ad.ad_id), AdBlockFull(ad.ad_id)>>),
     Html(<<AdBlockBad(ad.ad_id)>>),
     Html(<<DivNoAdid>>)}

\* what SMTP can do with the message
SendResults == {"ok", "auth_rejected", "transport_error"}

----------------------------------------------------------------------------
(* main(), run after run *)

\* the previous run as the next one remembers it: kept only while the site
\* answers as it did in that run
NoPrev == [outcome |-> "none", new_ads |-> <<>>, intact |-> TRUE]

NewLog(file, delivered, prev) ==
    [fetched     |-> <<>>,      \* target URLs fetch was called with, in order
     failed      |-> {},        \* positions in urls whose try block raised
     enriched    |-> <<>>,      \* ad URLs fetch was called with, in order
     efailed     |-> {},        \* positions in new_ads whose enrichment raised
     seenRead    |-> FALSE,     \* load_seen was called
     writes      |-> 0,         \* calls of save_seen in this run
     fileAtStart |-> file,      \* SEEN_FILE when the run started
     listed      |-> {},        \* ids of the ads the sent text body lists
     delivered   |-> delivered, \* ids listed in a digest sent by an earlier run
     outcome     |-> "running",
     prev        |-> prev]

\* no search_listings call is under way
SearchIdle ==
    /\ scraper = "none"
    /\ catalog = <<>>
    /\ listing_urls = <<>>
    /\ pageNo = 1
    /\ spc = "idle"
    /\ events = <<>>

Init ==
    /\ urlsFile \in UrlFiles
    /\ seenFile \in InitialSeenFiles
    /\ site \in Sites
    /\ pc = "start"
    /\ exitCode = -1
    /\ urls = <<>>
    /\ seen = <<>>
    /\ idx = 1
    /\ all_ads = <<>>
    /\ new_ads = <<>>
    /\ details = <<>>
    /\ sent = <<>>
    /\ log = NewLog(seenFile, {}, NoPrev)
    /\ SearchIdle

\* the run ends: main's return code, or 1 for an exception nothing catches
Exit(code, outcome) ==
    /\ pc' = "done"
    /\ exitCode' = code
    /\ log' = [log EXCEPT !.outcome = outcome]

\* fault: the no-URL branch returns without an error code
NoUrlsExitZero ==
    /\ Exit(0, "no_urls")
    /\ UNCHANGED <<urls, seen>>

\* lines 424-426: no URL was read
NoUrlsExit ==
    /\ Exit(2, "no_urls")
    /\ UNCHANGED <<urls, seen>>

\* lines 423-429: read_urls, the no-URL exit, load_seen
StartRun ==
    /\ UNCHANGED searchVars
    /\ pc = "start"
    /\ \/ /\ ~urlsFile.exists
          /\ Exit(1, "urls_unreadable")
          /\ UNCHANGED <<urls, seen>>
       \/ /\ urlsFile.exists
          /\ read_urls(urlsFile.lines) = <<>>
          /\ NoUrlsExit
       \/ /\ urlsFile.exists
          /\ read_urls(urlsFile.lines) # <<>>
          /\ LoadRaises(seenFile)
          /\ urls' = read_urls(urlsFile.lines)
          /\ pc' = "done"
          /\ exitCode' = 1
          /\ log' = [log EXCEPT !.outcome = "seen_unreadable", !.seenRead = TRUE]
          /\ UNCHANGED seen
       \/ /\ urlsFile.exists
          /\ read_urls(urlsFile.lines) # <<>>
          /\ ~LoadRaises(seenFile)
          /\ urls' = read_urls(urlsFile.lines)
          /\ seen' = load_seen(seenFile)
          /\ pc' = "fetch"
          /\ log' = [log EXCEPT !.seenRead = TRUE]
          /\ UNCHANGED exitCode
    /\ UNCHANGED <<urlsFile, seenFile, site, idx, all_ads, new_ads, details, sent>>

\* the for statement of line 433 moves to the next url, or ends
NextTarget ==
    /\ idx' = idx + 1
    /\ pc' = IF idx = Len(urls) THEN "filter" ELSE "fetch"
    /\ UNCHANGED exitCode

\* fault: the failure ends the loop (break) instead of moving on
TargetRaisesBreaks(url) ==
    /\ all_ads' = all_ads
    /\ log' = [log EXCEPT !.fetched = Append(@, url), !.failed = @ \cup {idx}]
    /\ idx' = idx + 1
    /\ pc' = "filter"
    /\ UNCHANGED exitCode

\* lines 439-440: fetch or extraction raised
TargetRaises(url) ==
    /\ all_ads' = all_ads
    /\ log' = [log EXCEPT !.fetched = Append(@, url), !.failed = @ \cup {idx}]
    /\ NextTarget

\* lines 435-438
TargetFetched(url, html) ==
    /\ all_ads' = DictUpdate(all_ads, extract_ads_from_listing_page(html))
    /\ log' = [log EXCEPT !.fetched = Append(@, url)]
    /\ NextTarget

\* lines 433-440: one pass of the loop over urls
FetchTarget ==
    /\ UNCHANGED searchVars
    /\ pc = "fetch"
    /\ idx <= Len(urls)
    /\ LET url == urls[idx]
           answer == Answer(site[url])
       IN  \/ /\ answer.kind \in {"error", "unparsable"}
              /\ TargetRaises(url)
           \/ /\ answer.kind = "html"
              /\ TargetFetched(url, answer.page)
    /\ UNCHANGED <<urlsFile, seenFile, site, urls, seen, new_ads, details, sent>>

\* fault: the test against the seen-set is missing
filter_new_unfiltered(ads, seen_ids) == ads

\* line 442
filter_new(ads, seen_ids) == SelectSeq(ads, LAMBDA ad : ad.ad_id \notin seen_ids)

\* lines 442-448: filter, the no-new-ads return, the sort
FilterNew ==
    /\ UNCHANGED searchVars
    /\ pc = "filter"
    /\ LET fresh == filter_new(all_ads, Range(seen))
       IN  \/ /\ fresh = <<>>
              /\ new_ads' = fresh
              /\ Exit(0, "no_new")
           \/ /\ fresh # <<>>
              /\ IF SortRaises(Keys(fresh))
                 THEN /\ new_ads' = fresh
                      /\ Exit(1, "sort_error")
                 ELSE /\ new_ads' = sort_newest_first(fresh)
                      /\ pc' = "enrich"
                      /\ UNCHANGED <<exitCode, log>>
    /\ idx' = 1
    /\ UNCHANGED <<urlsFile, seenFile, site, urls, seen, all_ads, details, sent>>

\* fault: the ad's page is fetched although the ad has all three details
EnrichSkippedFetches(ad) ==
    /\ details' = Append(details, ad)
    /\ log' = [log EXCEPT !.enriched = Append(@, ad.url)]

\* line 455: the ad has all three details, nothing is fetched
EnrichSkipped(ad) ==
    /\ details' = Append(details, ad)
    /\ log' = log

\* fault: the except branch only logs, the ad gets no entry
EnrichRaisesDropsAd(ad) ==
    /\ details' = details
    /\ log' = [log EXCEPT !.enriched = Append(@, ad.url), !.efailed = @ \cup {idx}]

\* lines 458-460: fetch or parsing raised inside enrich_from_classified_page
EnrichRaises(ad) ==
    /\ details' = Append(details, ad)
    /\ log' = [log EXCEPT !.enriched = Append(@, ad.url), !.efailed = @ \cup {idx}]

\* line 457
Enriched(ad, html) ==
    /\ details' = Append(details, enrich_from_classified_page(ad, html))
    /\ log' = [log EXCEPT !.enriched = Append(@, ad.url)]

\* lines 452-460: one pass of the loop over new_ads[:MAX_EMAIL_ITEMS]
EnrichAd ==
    /\ UNCHANGED searchVars
    /\ pc = "enrich"
    /\ idx <= Min(MAX_EMAIL_ITEMS, Len(new_ads))
    /\ LET ad == new_ads[idx]
       IN  \/ /\ HasAllDetails(ad)
              /\ EnrichSkipped(ad)
           \/ /\ ~HasAllDetails(ad)
              /\ \E answer \in AdAnswers(ad) :
                    /\ answer.kind \in {"error", "unparsable"}
                    /\ EnrichRaises(ad)
           \/ /\ ~HasAllDetails(ad)
              /\ \E answer \in AdAnswers(ad) :
                    /\ answer.kind = "html"
                    /\ Enriched(ad, answer.page)
    /\ idx' = idx + 1
    /\ pc' = IF idx = Min(MAX_EMAIL_ITEMS, Len(new_ads)) THEN "send" ELSE "enrich"
    /\ UNCHANGED <<urlsFile, seenFile, site, exitCode, urls, seen, all_ads,
                   new_ads, sent>>

\* the message of lines 462-469
Digest ==
    [subject |-> Len(new_ads),
     text    |-> build_digest_text(new_ads),
     html    |-> build_digest_html(details)]

\* ids of the ads build_digest_text lists
ListedIds(ads) == {ads[i].ad_id : i \in 1..Min(MAX_EMAIL_ITEMS, Len(ads))}

\* fault: the loaded seen-set is dropped, only the new ids are kept
SeenUpdateNewOnly == Keys(new_ads)

\* line 472: seen.update(ad.ad_id for ad in new_ads)
SeenUpdate == Range(seen) \cup Keys(new_ads)

\* fault: the seen-set is saved before the mail is handed over
SendRaisesAfterSave ==
    /\ Exit(1, "send_failed")
    /\ seenFile' = IF SortRaises(SeenUpdate) THEN seenFile
                   ELSE save_seen(CHOOSE t \in trim_seen_ids(SeenUpdate, SEEN_CAP) : TRUE)
    /\ UNCHANGED sent

\* lines 465-469 when send_email_gmail_smtp raises: nothing catches it
SendRaises ==
    /\ Exit(1, "send_failed")
    /\ UNCHANGED <<sent, seenFile>>

\* lines 465-473 when the mail is accepted and int() raises in trim_seen_ids
TrimRaises ==
    /\ sent' = <<Digest>>
    /\ pc' = "done"
    /\ exitCode' = 1
    /\ log' = [log EXCEPT !.outcome = "trim_error", !.listed = ListedIds(new_ads)]
    /\ UNCHANGED seenFile

\* lines 465-477 when the mail is accepted: update, trim, save, return 0
SentAndSaved ==
    /\ sent' = <<Digest>>
    /\ \E trimmed \in trim_seen_ids(SeenUpdate, SEEN_CAP) :
          seenFile' = save_seen(trimmed)
    /\ pc' = "done"
    /\ exitCode' = 0
    /\ log' = [log EXCEPT !.outcome = "persisted", !.listed = ListedIds(new_ads),
                          !.writes = @ + 1]

\* lines 462-477: build both bodies, send, update the seen-set, trim, save
SendDigest ==
    /\ UNCHANGED searchVars
    /\ pc = "send"
    /\ \E result \in SendResults :
          \/ /\ result # "ok"
             /\ SendRaises
          \/ /\ result = "ok"
             /\ SortRaises(SeenUpdate)
             /\ TrimRaises
          \/ /\ result = "ok"
             /\ ~SortRaises(SeenUpdate)
             /\ SentAndSaved
    /\ UNCHANGED <<urlsFile, site, urls, seen, idx, all_ads, new_ads, details>>

\* whether every merged id is among the SEEN_CAP numerically largest of the
\* loaded seen-set and the new ids together
AllKept ==
    LET union == Range(seen) \cup Keys(new_ads)
    IN  \A id \in Keys(all_ads) :
           Cardinality({x \in union : int(x) >= int(id)}) <= SEEN_CAP

\* what the next run remembers of this one when the site answers the same
Remember ==
    IF log.outcome = "persisted"
    THEN [outcome |-> "persisted", new_ads |-> <<>>, intact |-> AllKept]
    ELSE IF log.outcome = "send_failed"
    THEN [outcome |-> "send_failed", new_ads |-> new_ads, intact |-> TRUE]
    ELSE NoPrev

\* the scheduler starts the program again; the site may have changed
NextRun ==
    /\ UNCHANGED searchVars
    /\ pc = "done"
    /\ \E s \in Sites :
          /\ site' = s
          /\ log' = NewLog(seenFile, log.delivered \cup log.listed,
                           IF s = site THEN Remember ELSE NoPrev)
    /\ pc' = "start"
    /\ exitCode' = -1
    /\ urls' = <<>>
    /\ seen' = <<>>
    /\ idx' = 1
    /\ all_ads' = <<>>
    /\ new_ads' = <<>>
    /\ details' = <<>>
    /\ sent' = <<>>
    /\ UNCHANGED <<urlsFile, seenFile>>

Next == StartRun \/ FetchTarget \/ FilterNew \/ EnrichAd \/ SendDigest \/ NextRun

Spec == Init /\ [][Next]_vars

----------------------------------------------------------------------------
(* Properties *)

\* ids of a list of ads
Ids(ads) == {ads[i].ad_id : i \in 1..Len(ads)}

\* main has passed line 442 in this run: new_ads holds its list of new ads
Filtered ==
    \/ pc \in {"enrich", "send"}
    \/ /\ pc = "done"
       /\ log.outcome \in {"no_new", "sort_error", "send_failed", "trim_error",
                           "persisted"}

\* main has passed the enrichment loop in this run
Composed ==
    \/ pc = "send"
    \/ pc = "done" /\ log.outcome \in {"send_failed", "trim_error", "persisted"}

\* the identifiers SEEN_FILE held when the run started
SeenAtStart ==
    IF log.fileAtStart.kind = "list" THEN Range(log.fileAtStart.items) ELSE {}

\* C1: a run whose mail send fails leaves SEEN_FILE exactly as it found it
\* (nothing is written, no mail went out, the exit status is not 0), and the
\* next run over the same pages gets past the filter with the same list of
\* new ads.
C1_SendFailureKeepsSeenFile ==
    /\ (pc = "done" /\ log.outcome = "send_failed") =>
          /\ seenFile = log.fileAtStart
          /\ log.writes = 0
          /\ sent = <<>>
          /\ exitCode # 0
    /\ (log.prev.outcome = "send_failed" /\ pc \in {"enrich", "send", "done"}) =>
          /\ Filtered
          /\ new_ads = log.prev.new_ads
          /\ new_ads # <<>>

\* C1 witness: the run after a failed send, over the same pages, is about to
\* send the same new ads again
C1_Witness ==
    /\ log.prev.outcome = "send_failed"
    /\ pc = "send"
    /\ new_ads = log.prev.new_ads
    /\ new_ads # <<>>

\* C2 (as claimed): every identifier the program has put into SEEN_FILE was
\* listed in a digest that was sent, also when a run finds more new ads than
\* MAX_EMAIL_ITEMS.
C2_SeenOnlyIfListed ==
    seenFile.kind = "list" =>
        \A id \in Range(seenFile.items) :
            \/ \E f \in InitialSeenFiles : id \in Range(f.items)
            \/ id \in log.delivered \cup log.listed

\* what the run after a persisted one must do: no new ads, no mail, exit 0
QuietRun ==
    /\ pc \notin {"enrich", "send"}
    /\ sent = <<>>
    /\ log.enriched = <<>>
    /\ pc = "done" => exitCode = 0 /\ log.outcome = "no_new" /\ new_ads = <<>>

\* C3 (as claimed): the run that follows a sent and persisted digest, over
\* identical pages, finds no new ads, sends nothing and returns 0, whatever
\* the seen-set and the extracted identifiers were.
C3_IdempotentAlways == log.prev.outcome = "persisted" => QuietRun

\* C3 (amended): the same, provided every extracted identifier is among the
\* SEEN_CAP numerically largest of the seen-set and the new identifiers
\* together, so that the trim evicted none of them.
C3_IdempotentWhenKept ==
    (log.prev.outcome = "persisted" /\ log.prev.intact) => QuietRun

\* C3 witness: such a following run has ended with "No new ads."
C3_Witness ==
    /\ log.prev.outcome = "persisted"
    /\ log.prev.intact
    /\ pc = "done"
    /\ exitCode = 0
    /\ all_ads # <<>>
    /\ new_ads = <<>>

\* C4: new_ads holds exactly the merged records whose id is not in the
\* seen-set the run loaded, each once; the subject counts them all, and no
\* listed ad has a seen id.
C4_NewAdsAreTheUnseen ==
    Filtered =>
        /\ \A i \in 1..Len(new_ads) :
              /\ new_ads[i].ad_id \notin SeenAtStart
              /\ \E j \in 1..Len(all_ads) : all_ads[j] = new_ads[i]
        /\ \A j \in 1..Len(all_ads) :
              all_ads[j].ad_id \notin SeenAtStart =>
                  \E i \in 1..Len(new_ads) : new_ads[i] = all_ads[j]
        /\ Len(new_ads) = Cardinality(Ids(new_ads))
        /\ sent # <<>> =>
              /\ sent[1].subject = Cardinality(Keys(all_ads) \ SeenAtStart)
              /\ log.listed \cap SeenAtStart = {}

\* C4 witness: a digest is about to go out while some merged ad is already seen
C4_Witness ==
    /\ pc = "send"
    /\ Keys(all_ads) \cap SeenAtStart # {}
    /\ new_ads # <<>>

\* a list of distinct identifiers in descending numeric order
Descending(items) ==
    /\ \A i \in 1..Len(items) : int(items[i]) # ValueError
    /\ \A i, j \in 1..Len(items) : i < j => int(items[i]) >= int(items[j])
    /\ \A i, j \in 1..Len(items) : i # j => items[i] # items[j]

\* C5: a run that saves the seen-set saves the min(cap, size) numerically
\* largest identifiers of the loaded seen-set and the new ads' ids together,
\* in descending numeric order; every list the program has written is
\* descending and has at most SEEN_CAP entries.
C5_SavedIsTopOfUnion ==
    /\ (pc = "done" /\ log.writes > 0) =>
          LET union == SeenAtStart \cup Ids(new_ads)
              items == seenFile.items
          IN  /\ log.writes = 1
              /\ seenFile.kind = "list"
              /\ Len(items) = Min(SEEN_CAP, Cardinality(union))
              /\ Range(items) \subseteq union
              /\ Descending(items)
              /\ \A x \in union \ Range(items) :
                    \A y \in Range(items) : int(x) <= int(y)
    /\ seenFile \notin InitialSeenFiles =>
          /\ seenFile.kind = "list"
          /\ Descending(seenFile.items)
          /\ Len(seenFile.items) <= SEEN_CAP

\* C5 witness: a run has saved a union that was larger than the cap
C5_Witness ==
    /\ pc = "done"
    /\ log.writes = 1
    /\ Cardinality(SeenAtStart \cup Ids(new_ads)) > SEEN_CAP
    /\ SeenAtStart # {}

\* C6 (as claimed): load_seen never fails the run; an absent, malformed or
\* non-list file gives the empty list and the run goes on.
C6_LoadSeenNeverFails ==
    (log.seenRead /\ log.fileAtStart.kind \in {"absent", "malformed", "notlist"}) =>
        /\ log.outcome # "seen_unreadable"
        /\ seen = <<>>
        /\ pc = "done" => Filtered

\* the URL file is missing, or each of its lines is blank or a comment
NoTargetsConfigured ==
    \/ ~urlsFile.exists
    \/ \A i \in 1..Len(urlsFile.lines) :
          LET line == urlsFile.lines[i]
          IN  \/ \A k \in 1..Len(line) : line[k] \in Whitespace
              \/ \E k \in 1..Len(line) :
                    /\ line[k] = "#"
                    /\ \A m \in 1..(k - 1) : line[m] \in Whitespace

\* C7: without target URLs the run does nothing but end with a non-zero
\* status, 2 when the file was read and held no URL: no fetch, no mail, SEEN_FILE
\* neither read nor written.
C7_NoUrlsNoActivity ==
    NoTargetsConfigured =>
        /\ pc \in {"start", "done"}
        /\ log.fetched = <<>>
        /\ log.enriched = <<>>
        /\ sent = <<>>
        /\ ~log.seenRead
        /\ log.writes = 0
        /\ seenFile = log.fileAtStart
        /\ pc = "done" =>
              /\ exitCode # 0
              /\ urlsFile.exists => exitCode = 2

\* C7 witness: a URL file of comments and blank lines ended the run with 2
C7_Witness ==
    /\ urlsFile.exists
    /\ urlsFile.lines # <<>>
    /\ NoTargetsConfigured
    /\ pc = "done"
    /\ exitCode = 2

\* positions of urls the loop has gone through, and those that succeeded
Visited == 1..Len(log.fetched)
Succeeded == Visited \ log.failed

\* the mapping of ids to records that the page of target j yields
Yield(j) == extract_ads_from_listing_page(Answer(site[urls[j]]).page)

\* C8: a target that fails does not stop the loop: the targets are fetched
\* one by one in the order of the file, the failed positions are those whose
\* request or parse failed, the merged mapping (as the loop builds it and as
\* the filter reads it) holds the ids of the targets that succeeded and each
\* record comes from one of them, and the run reaches the filter.
C8_FailedTargetIsSkipped ==
    /\ pc = "fetch" => log.fetched = SubSeq(urls, 1, idx - 1)
    /\ pc \in {"filter", "enrich", "send"} => log.fetched = urls
    /\ (pc = "done" /\ log.fetched # <<>>) => log.fetched = urls /\ Filtered
    /\ pc \in {"fetch", "filter"} =>
          /\ log.failed = {j \in Visited : Answer(site[urls[j]]).kind # "html"}
          /\ Keys(all_ads) = UNION {Ids(Yield(j)) : j \in Succeeded}
          /\ \A i \in 1..Len(all_ads) :
                \E j \in Succeeded : all_ads[i] \in Range(Yield(j))

\* C8 witness: the first target failed, the second gave ads, a digest is due
C8_Witness ==
    /\ pc = "send"
    /\ 1 \in log.failed
    /\ 2 \notin log.failed
    /\ all_ads # <<>>

\* C9: the details list has one entry per ad among the first MAX_EMAIL_ITEMS
\* new ads, in their order; where enrichment raised, the entry is the
\* original record; the loop goes on after a failure.
C9_FailedEnrichmentKeepsAd ==
    /\ pc = "enrich" => Len(details) = idx - 1
    /\ Composed =>
          /\ Len(details) = Min(MAX_EMAIL_ITEMS, Len(new_ads))
          /\ \A i \in 1..Len(details) :
                /\ details[i].ad_id = new_ads[i].ad_id
                /\ details[i].url = new_ads[i].url
          /\ \A i \in log.efailed : i <= Len(details) /\ details[i] = new_ads[i]

\* C9 witness: the first enrichment raised and the second ad was enriched
C9_Witness ==
    /\ pc = "send"
    /\ log.efailed = {1}
    /\ Len(details) = 2
    /\ details[1] = new_ads[1]
    /\ details[2] # new_ads[2]

\* the records a page offers in document order: those of its blocks, or,
\* when no block gives one, those of its anchors
BlockRecords(page) ==
    SelectSeq([i \in 1..Len(page) |->
                  IF page[i].kind = "div" /\ page[i].hasAdid
                  THEN parse_classified_single(page[i]) ELSE NoAd],
              LAMBDA r : r # NoAd)
LinkRecords(page) ==
    SelectSeq([i \in 1..Len(page) |-> parse_anchor(page[i])], LAMBDA r : r # NoAd)
Offers(page) ==
    IF BlockRecords(page) = <<>> THEN LinkRecords(page) ELSE BlockRecords(page)
FirstWithId(records, id) ==
    records[Least({i \in 1..Len(records) : records[i].ad_id = id})]
OffersOf(j) == Offers(Answer(site[urls[j]]).page)

\* C10: while the loop over the targets builds the merged mapping, and when
\* the filter reads it, it holds one record per id: the first record with
\* that id on the last successfully processed page that offers the id.
C10_FirstInPageLastAcrossPages ==
    pc \in {"fetch", "filter"} =>
        /\ Len(all_ads) = Cardinality(Keys(all_ads))
        /\ Keys(all_ads) = UNION {Ids(OffersOf(j)) : j \in Succeeded}
        /\ \A i \in 1..Len(all_ads) :
              LET id   == all_ads[i].ad_id
                  from == {j \in Succeeded : id \in Ids(OffersOf(j))}
                  last == CHOOSE j \in from : \A k \in from : k <= j
              IN  all_ads[i] = FirstWithId(OffersOf(last), id)

\* C10 witness: both pages offer ad 10 with different records, the later
\* page twice, and the merged record is the later page's first one
C10_Witness ==
    /\ pc = "filter"
    /\ Succeeded = {1, 2}
    /\ \E id \in Ids(OffersOf(1)) \cap Ids(OffersOf(2)) :
          /\ FirstWithId(OffersOf(1), id) # FirstWithId(OffersOf(2), id)
          /\ Cardinality({i \in 1..Len(OffersOf(2)) : OffersOf(2)[i].ad_id = id}) > 1
          /\ \E i \in 1..Len(all_ads) : all_ads[i] = FirstWithId(OffersOf(2), id)

\* the page target j answered with
PageOf(j) == Answer(site[urls[j]]).page

\* a non-empty string of decimal digits
AllDecimal(s) == s # <<>> /\ \A i \in 1..Len(s) : s[i] \in DecimalDigits

\* the three conditions on a container: a data-adid attribute of decimal
\* digits (surrounding whitespace aside), a header anchor with a link, a
\* normalized title of at least 3 characters
ValidContainer(div) ==
    /\ div.hasAdid /\ AllDecimal(Strip(div.adid))
    /\ div.hasAnchor /\ Truthy(div.href)
    /\ Len(Strip(CollapseWs(Strip(div.text)))) >= 3

\* C11 (as claimed): on every page a run has extracted, a container yields
\* an Ad if and only if it meets the three conditions, the Ad has the
\* container's id and url, and the page's result holds a record with that id.
C11_ContainerYieldsIffValid ==
    pc = "filter" =>
        \A j \in Succeeded :
            \A i \in 1..Len(PageOf(j)) :
                LET div == PageOf(j)[i]
                    ad  == parse_classified_single(div)
                IN  div.kind = "div" =>
                        /\ (ad # NoAd) <=> ValidContainer(div)
                        /\ ValidContainer(div) =>
                              /\ ad.ad_id = Strip(div.adid)
                              /\ ad.url = normalize_url(div.href)
                              /\ ad.ad_id \in Keys(Yield(j))

\* a record as the fallback makes it: no price, location, posted,
\* description or images
Minimal(ad) ==
    /\ ad.price = NoneVal
    /\ ad.location = NoneVal
    /\ ad.posted = NoneVal
    /\ ad.description = NoneVal
    /\ ad.images = <<>>

\* C12: on every page a run has extracted, if some container yields a
\* record then the result holds exactly the containers' ids and each record
\* is a container's; otherwise every record of the result is a link's record
\* and has no price, location, posted, description or images.
C12_FallbackOnlyWithoutBlocks ==
    pc = "filter" =>
        \A j \in Succeeded :
            LET page == PageOf(j)
                out  == Yield(j)
            IN  /\ BlockRecords(page) # <<>> =>
                      /\ Keys(out) = Ids(BlockRecords(page))
                      /\ Range(out) \subseteq Range(BlockRecords(page))
                /\ BlockRecords(page) = <<>> =>
                      /\ Keys(out) = Ids(LinkRecords(page))
                      /\ Range(out) \subseteq Range(LinkRecords(page))
                      /\ \A i \in 1..Len(out) : Minimal(out[i])

\* C12 witness: one extracted page has containers and a classified link whose
\* id is not in its result; another has no valid container, and its result
\* holds a link's record although a block of the page has a price
C12_Witness ==
    /\ pc = "filter"
    /\ \E j \in Succeeded :
          /\ BlockRecords(PageOf(j)) # <<>>
          /\ Ids(LinkRecords(PageOf(j))) \ Keys(Yield(j)) # {}
    /\ \E k \in Succeeded :
          /\ BlockRecords(PageOf(k)) = <<>>
          /\ Yield(k) # <<>>
          /\ \E i \in 1..Len(PageOf(k)) :
                /\ PageOf(k)[i].hasBody
                /\ parse_anchor(PageOf(k)[i]) \in Range(Yield(k))

\* the list line 448 sorts: the merged ads whose id is not in the seen-set
Unsorted == filter_new(all_ads, Range(seen))

\* out holds the records of inp, each once, by descending numeric id, and
\* records whose ids have the same numeric value are in their order in inp
StableDescending(inp, out) ==
    /\ Len(out) = Len(inp)
    /\ Range(out) = Range(inp)
    /\ \A i, j \in 1..Len(out) : i < j => int(out[i].ad_id) >= int(out[j].ad_id)
    /\ \A i, j \in 1..Len(inp) :
          (i < j /\ int(inp[i].ad_id) = int(inp[j].ad_id)) =>
              \E k, l \in 1..Len(out) : k < l /\ out[k] = inp[i] /\ out[l] = inp[j]

\* C13 (as claimed): no run ends in sort_newest_first, because int() accepts
\* every extracted id; and past line 448 new_ads is the stable descending
\* arrangement of the unseen merged ads.
C13_SortStableAndNeverFails ==
    /\ \A i \in 1..Len(all_ads) : int(all_ads[i].ad_id) # ValueError
    /\ log.outcome # "sort_error"
    /\ (Filtered /\ log.outcome # "sort_error") => StableDescending(Unsorted, new_ads)

\* the blocks of a page whose data-adid attribute is ad_id
BlocksWithId(page, ad_id) ==
    {i \in 1..Len(page) :
        page[i].kind = "div" /\ page[i].hasAdid /\ page[i].adid = ad_id}

\* the fresh value of an optional field if it is non-empty, else the old one
Fresher(fresh, old) == IF fresh = NoneVal \/ fresh = <<>> THEN old ELSE fresh

\* out is what the claim says enrichment makes of ad and the ad's page
MergedFrom(ad, page, out) ==
    LET found  == BlocksWithId(page, ad.ad_id)
        parsed == IF found = {} THEN NoAd
                  ELSE parse_classified_single(page[Least(found)])
    IN  /\ out.ad_id = ad.ad_id
        /\ out.url = ad.url
        /\ parsed = NoAd => out = ad
        /\ parsed # NoAd =>
              /\ out.price = Fresher(parsed.price, ad.price)
              /\ out.location = Fresher(parsed.location, ad.location)
              /\ out.posted = Fresher(parsed.posted, ad.posted)
              /\ out.description = Fresher(parsed.description, ad.description)
              /\ out.images = Fresher(parsed.images, ad.images)

\* C14: for every ad the loop enriches and every page its URL can answer,
\* the result keeps id and url, takes each optional field from the parsed
\* block if non-empty and else from the original, and is the original when
\* no block with the id is found or parses; every entry of details is the
\* original or such a result, and new_ads still holds the original records.
C14_EnrichMergesFreshOverOriginal ==
    /\ (pc = "enrich" /\ idx = 1) =>
          \A i \in 1..Min(MAX_EMAIL_ITEMS, Len(new_ads)) :
              \A a \in AdAnswers(new_ads[i]) :
                  a.kind = "html" =>
                      MergedFrom(new_ads[i], a.page,
                                 enrich_from_classified_page(new_ads[i], a.page))
    /\ pc \in {"enrich", "send"} =>
          /\ \A i \in 1..Len(details) :
                \/ details[i] = new_ads[i]
                \/ /\ ~HasAllDetails(new_ads[i])
                   /\ i \notin log.efailed
                   /\ \E a \in AdAnswers(new_ads[i]) :
                         a.kind = "html" /\ MergedFrom(new_ads[i], a.page, details[i])
          /\ new_ads = sort_newest_first(Unsorted)

\* C14 witness: one entry of details has a fresh price over the original's
\* images and location, another is the unchanged original although its page
\* was fetched
C14_Witness ==
    /\ pc = "send"
    /\ \E i \in 1..Len(details) :
          /\ details[i].price # new_ads[i].price
          /\ details[i].images = new_ads[i].images
          /\ details[i].images # <<>>
          /\ details[i].location = new_ads[i].location
          /\ details[i].location # NoneVal
    /\ \E k \in 1..Len(details) :
          /\ ~HasAllDetails(new_ads[k])
          /\ k \notin log.efailed
          /\ details[k] = new_ads[k]

\* the URLs of the ads among the first n of new_ads that lack a price, a
\* description or images, in order
RECURSIVE UrlsLackingDetails(_)
UrlsLackingDetails(n) ==
    IF n = 0 THEN <<>>
    ELSE IF HasAllDetails(new_ads[n])
         THEN UrlsLackingDetails(n - 1)
         ELSE Append(UrlsLackingDetails(n - 1), new_ads[n].url)

\* C15: a run issues at most MAX_EMAIL_ITEMS enrichment fetches; the pages
\* fetched so far are exactly those of the ads the loop has gone through
\* (all within the first MAX_EMAIL_ITEMS of the sorted new ads) that lack a
\* price, a description or images, one fetch each, in order; before the loop
\* and in a run that never reaches it no ad page is fetched.
C15_EnrichmentFetchPolicy ==
    /\ Len(log.enriched) <= MAX_EMAIL_ITEMS
    /\ Len(details) <= Min(MAX_EMAIL_ITEMS, Len(new_ads))
    /\ log.enriched = UrlsLackingDetails(Len(details))

\* C15 witness: a digest is due for more new ads than MAX_EMAIL_ITEMS; one of
\* the first ads has all three details and was not fetched, one was fetched,
\* and an ad beyond the cap lacks details and was not fetched
C15_Witness ==
    /\ pc = "send"
    /\ Len(new_ads) > MAX_EMAIL_ITEMS
    /\ \E i \in 1..MAX_EMAIL_ITEMS : HasAllDetails(new_ads[i])
    /\ log.enriched # <<>>
    /\ \E k \in (MAX_EMAIL_ITEMS + 1)..Len(new_ads) :
          /\ ~HasAllDetails(new_ads[k])
          /\ new_ads[k].url \notin Range(log.enriched)

\* C16 (as claimed): both bodies of a sent digest show the same ads in the
\* same order, at most MAX_EMAIL_ITEMS of them, and for each ad the HTML card
\* shows the title and the price (or "Price N/A") of the text body, escaped
\* for HTML.
C16_BothBodiesShowTheSame ==
    sent # <<>> =>
        LET items == sent[1].text.items
            cards == sent[1].html.cards
        IN  /\ Len(items) = Len(cards)
            /\ Len(items) <= MAX_EMAIL_ITEMS
            /\ \A i \in 1..Len(items) :
                  /\ cards[i].url = items[i].url
                  /\ cards[i].title = html_escape(items[i].title)
                  /\ cards[i].price = html_escape(items[i].price)

\* C17 (as claimed): a run in which the mail was accepted ends with exit
\* status 0 after writing SEEN_FILE exactly once, whatever list load_seen
\* read at the start.
C17_SentThenSavedOnce ==
    (pc = "done" /\ sent # <<>>) =>
        /\ log.writes = 1
        /\ exitCode = 0
        /\ seenFile.kind = "list"

----------------------------------------------------------------------------
(* scrapers/: search_listings of BarnstormersScraper, ControllerScraper    *)
(* and TradeAPlaneScraper.  An href is a sequence of tokens in which "/"   *)
(* is a token of its own.                                                  *)

\* pages a site's catalog has; beyond them the site answers an empty page
MaxPages == 4

\* self.sleep(1.5), in tenths of a second
COURTESY_DELAY == 15

Scrapers == {"barnstormers", "controller", "tradeaplane"}

\* self.base_url
base_url(s) ==
    CASE s = "barnstormers" -> <<"https://", "www.barnstormers.com">>
      [] s = "controller"   -> <<"https://", "www.controller.com">>
      [] s = "tradeaplane"  -> <<"https://", "www.trade-a-plane.com">>

\* `needle in s` for strings
Contains(s, needle) ==
    \E i \in 1..(Len(s) - Len(needle) + 1) :
        SubSeq(s, i, i + Len(needle) - 1) = needle

\* BaseScraper.normalize_url(url) with base = self.base_url
BaseScraper_normalize_url(url, base) ==
    IF url = <<>> THEN url
    ELSE IF Head(url) \in {"http://", "https://"} THEN url
    ELSE IF Head(url) = "/" THEN base \o url
    ELSE base \o <<"/">> \o url

\* a listing container of a result page: its data-adid (Barnstormers), and
\* the href of the link find() returns in it, if any
Container(adid, hasLink, href) == [adid |-> adid, hasLink |-> hasLink, href |-> href]

\* a result page: the href of every a[href] in document order, the listing
\* containers, and whether an a.next link is present
ResultPage(anchors, containers, next_page) ==
    [kind |-> "html", anchors |-> anchors, containers |-> containers,
     next_page |-> next_page]

SearchError == [kind |-> "error", anchors |-> <<>>, containers |-> <<>>,
                next_page |-> FALSE]

\* the test each scraper applies to the href of an anchor
LinkListed(s, href) ==
    CASE s = "barnstormers" ->
            /\ Contains(href, <<"/", "classified-">>)
            /\ href[Len(href)] = ".html"
      [] s = "controller" ->
            /\ Contains(href, <<"/", "listings", "/", "aircraft", "/">>)
            /\ Contains(href, <<"/", "for-sale", "/">>)
            /\ ~Contains(href, <<"/", "list", "/">>)
      [] s = "tradeaplane" ->
            /\ \/ Contains(href, <<"/", "listing", "/">>)
               \/ Contains(href, <<"/", "aircraft", "/">>)
            /\ Head(href) = "/"

\* the test each scraper applies to a listing container
ContainerListed(s, c) ==
    CASE s = "barnstormers" -> c.adid # <<>> /\ c.hasLink
      [] s = "controller" ->
            /\ c.hasLink /\ c.href # <<>>
            /\ Contains(c.href, <<"/", "listings", "/", "aircraft", "/">>)
            /\ ~Contains(c.href, <<"/", "list", "/">>)
      [] s = "tradeaplane" -> c.hasLink /\ c.href # <<>>

\* fault: found_any is set for every listing link, collected before or not
RECURSIVE CollectLinksAnyListed(_, _, _)
CollectLinksAnyListed(s, anchors, acc) ==
    IF anchors = <<>> THEN acc
    ELSE LET full_url == BaseScraper_normalize_url(Head(anchors), base_url(s))
         IN  IF LinkListed(s, Head(anchors))
             THEN CollectLinksAnyListed(s, Tail(anchors),
                      [urls |-> IF full_url \in Range(acc.urls) THEN acc.urls
                                ELSE Append(acc.urls, full_url),
                       found_any |-> TRUE])
             ELSE CollectLinksAnyListed(s, Tail(anchors), acc)

\* the loop over soup.find_all("a", href=True); acc is [urls, found_any]
RECURSIVE CollectLinks(_, _, _)
CollectLinks(s, anchors, acc) ==
    IF anchors = <<>> THEN acc
    ELSE LET full_url == BaseScraper_normalize_url(Head(anchors), base_url(s))
         IN  IF LinkListed(s, Head(anchors)) /\ full_url \notin Range(acc.urls)
             THEN CollectLinks(s, Tail(anchors),
                               [urls |-> Append(acc.urls, full_url), found_any |-> TRUE])
             ELSE CollectLinks(s, Tail(anchors), acc)

\* the loop over the listing containers
RECURSIVE CollectContainers(_, _, _)
CollectContainers(s, containers, acc) ==
    IF containers = <<>> THEN acc
    ELSE LET c == Head(containers)
             full_url == BaseScraper_normalize_url(c.href, base_url(s))
         IN  IF ContainerListed(s, c) /\ full_url \notin Range(acc.urls)
             THEN CollectContainers(s, Tail(containers),
                                    [urls |-> Append(acc.urls, full_url),
                                     found_any |-> TRUE])
             ELSE CollectContainers(s, Tail(containers), acc)

\* both loops over one result page, starting with found_any = False
ScanPage(s, pg, collected) ==
    CollectContainers(s, pg.containers,
                      CollectLinks(s, pg.anchors,
                                   [urls |-> collected, found_any |-> FALSE]))

\* whether the loop goes on to the next page: `if not found_any: break`, and
\* `if not next_page or not found_any: break` for Controller and Trade-A-Plane
KeepsGoing(s, found_any, next_page) ==
    IF s = "barnstormers" THEN found_any ELSE next_page /\ found_any

\* hrefs of the Barnstormers result pages
BarnAd1    == <<"/", "classified-", "1", "-rv", ".html">>
BarnAd1Abs == base_url("barnstormers") \o BarnAd1
BarnAd2    == <<"/", "classified-", "2", "-rv", ".html">>
BarnAbout  == <<"/", "about", ".html">>
BarnAd3    == <<"/", "ad", "/", "3">>

\* hrefs of the Controller result pages: two listings, the list page itself
\* and a listing that only its card links
CtlAd1  == <<"/", "listings", "/", "aircraft", "/", "for-sale", "/", "101">>
CtlAd2  == <<"/", "listings", "/", "aircraft", "/", "for-sale", "/", "102">>
CtlList == <<"/", "listings", "/", "aircraft", "/", "for-sale", "/", "list", "/", "vans">>
CtlCard == <<"/", "listings", "/", "aircraft", "/", "auction", "/", "103">>

\* hrefs of the Trade-A-Plane result pages
TapAd1    == <<"/", "listing", "/", "7">>
TapAd1Abs == base_url("tradeaplane") \o TapAd1
TapAd2    == <<"/", "aircraft", "/", "8">>
TapHelp   == <<"/", "help">>

\* what a site can answer for one page number: a failed request, or a page
SearchAnswers(s) ==
    CASE s = "barnstormers" ->
            {SearchError,
             ResultPage(<<BarnAd1, BarnAbout, BarnAd2>>, <<>>, FALSE),
             ResultPage(<<BarnAd1Abs, BarnAd3>>,
                        <<Container(<<"3">>, TRUE, BarnAd3),
                          Container(<<>>, TRUE, BarnAbout)>>, FALSE),
             ResultPage(<<BarnAd2, BarnAd2>>, <<>>, FALSE),
             ResultPage(<<BarnAbout>>, <<Container(<<"4">>, FALSE, <<>>)>>, FALSE)}
      [] s = "controller" ->
            {SearchError,
             ResultPage(<<CtlAd1, CtlList>>, <<>>, TRUE),
             ResultPage(<<CtlAd1, CtlAd2>>, <<>>, TRUE),
             ResultPage(<<CtlAd2>>, <<>>, FALSE),
             ResultPage(<<CtlCard, CtlList>>,
                        <<Container(<<>>, TRUE, CtlCard),
                          Container(<<>>, TRUE, CtlList)>>, TRUE),
             ResultPage(<<CtlList>>, <<>>, TRUE)}
      [] s = "tradeaplane" ->
            {SearchError,
             ResultPage(<<TapAd1, TapHelp>>, <<>>, TRUE),
             ResultPage(<<TapAd1Abs, TapAd2>>,
                        <<Container(<<>>, TRUE, TapAd1Abs)>>, TRUE),
             ResultPage(<<TapAd2>>, <<>>, FALSE),
             ResultPage(<<TapHelp>>, <<Container(<<>>, FALSE, <<>>)>>, TRUE)}

\* what the site answers for page n
AnswerOf(n) ==
    IF n \in 1..MaxPages THEN catalog[n] ELSE ResultPage(<<>>, <<>>, FALSE)

\* main() is not running
MainIdle ==
    /\ urlsFile = NoUrlsFile
    /\ seenFile = AbsentFile
    /\ site = [u \in Targets |-> "PageNone"]
    /\ pc = "start"
    /\ exitCode = -1
    /\ urls = <<>>
    /\ seen = <<>>
    /\ idx = 1
    /\ all_ads = <<>>
    /\ new_ads = <<>>
    /\ details = <<>>
    /\ sent = <<>>
    /\ log = NewLog(AbsentFile, {}, NoPrev)

\* search_listings is called: listing_urls = [], page = 1
InitSearch ==
    /\ MainIdle
    /\ scraper \in Scrapers
    /\ catalog \in [1..MaxPages -> SearchAnswers(scraper)]
    /\ listing_urls = <<>>
    /\ pageNo = 1
    /\ spc = "loop"
    /\ events = <<>>

Fetch(n) == [op |-> "fetch", n |-> n]
Sleep == [op |-> "sleep", n |-> COURTESY_DELAY]

\* one pass of `while True` in which fetch raises: the except branch breaks
\* and the method returns listing_urls
SearchPageFails ==
    /\ spc = "loop"
    /\ AnswerOf(pageNo).kind = "error"
    /\ events' = Append(events, Fetch(pageNo))
    /\ spc' = "returned"
    /\ UNCHANGED <<scraper, catalog, listing_urls, pageNo>>
    /\ UNCHANGED mainVars

\* one pass of `while True` over a fetched page: collect, then either break
\* and return, or page += 1 and sleep
SearchPageScanned ==
    /\ spc = "loop"
    /\ AnswerOf(pageNo).kind = "html"
    /\ LET pg == AnswerOf(pageNo)
           r  == ScanPage(scraper, pg, listing_urls)
       IN  /\ listing_urls' = r.urls
           /\ IF KeepsGoing(scraper, r.found_any, pg.next_page)
              THEN /\ pageNo' = pageNo + 1
                   /\ events' = events \o <<Fetch(pageNo), Sleep>>
                   /\ spc' = "loop"
              ELSE /\ pageNo' = pageNo
                   /\ events' = Append(events, Fetch(pageNo))
                   /\ spc' = "returned"
    /\ UNCHANGED <<scraper, catalog>>
    /\ UNCHANGED mainVars

NextSearch == SearchPageFails \/ SearchPageScanned

\* every pass of the loop ends: each request has a timeout
SpecSearch == InitSearch /\ [][NextSearch]_vars /\ WF_vars(NextSearch)

\* the listing URLs page n of the catalog offers
Accepted(n) ==
    LET pg == AnswerOf(n)
    IN  {BaseScraper_normalize_url(pg.anchors[i], base_url(scraper)) :
            i \in {k \in 1..Len(pg.anchors) : LinkListed(scraper, pg.anchors[k])}}
        \cup
        {BaseScraper_normalize_url(pg.containers[i].href, base_url(scraper)) :
            i \in {k \in 1..Len(pg.containers) :
                      ContainerListed(scraper, pg.containers[k])}}

\* the listing URLs the pages before page n offer, and those page n adds
OfferedBefore(n) == UNION {Accepted(m) : m \in 1..(n - 1)}
GainOn(n) == Accepted(n) \ OfferedBefore(n)

\* the page numbers requested so far
Requested == {events[i].n : i \in {k \in 1..Len(events) : events[k].op = "fetch"}}

\* what holds of the loop in every state
PaginationSafety ==
    \* the requests are for pages 1, 2, ... with one sleep between two of them
    /\ \A i \in 1..Len(events) :
          events[i] = IF i % 2 = 1 THEN Fetch((i + 1) \div 2) ELSE Sleep
    /\ spc = "loop" => Len(events) % 2 = 0 /\ pageNo = (Len(events) \div 2) + 1
    /\ spc = "returned" => Len(events) % 2 = 1 /\ pageNo = (Len(events) + 1) \div 2
    \* page n+1 is requested only after page n added a URL (and had a next link)
    /\ \A n \in Requested :
          n > 1 =>
              /\ AnswerOf(n - 1).kind = "html"
              /\ GainOn(n - 1) # {}
              /\ scraper # "barnstormers" => AnswerOf(n - 1).next_page
    \* no duplicate, and nothing but what the fetched pages offer
    /\ \A i, j \in 1..Len(listing_urls) : i # j => listing_urls[i] # listing_urls[j]
    /\ Range(listing_urls) =
          UNION {Accepted(n) : n \in {m \in Requested : AnswerOf(m).kind = "html"}}
    \* a failed request ends the loop with what was collected before it
    /\ \A n \in Requested :
          AnswerOf(n).kind = "error" =>
              /\ spc = "returned"
              /\ pageNo = n
              /\ Range(listing_urls) = OfferedBefore(n)
    \* at most one request more than the site has distinct listing URLs
    /\ Cardinality(Requested) <=
          Cardinality(UNION {Accepted(n) : n \in 1..MaxPages}) + 1

\* C18: in every state of search_listings page n+1 is requested only after
\* page n added a listing URL not collected before (and, for Controller and
\* Trade-A-Plane, had a next-page link), one courtesy sleep lies between two
\* successive requests, listing_urls holds no URL twice, a failed request
\* ends the loop with what was collected, and the number of requests is at
\* most the number of distinct listing URLs of the site plus one; and the
\* method eventually returns.
C18_PaginationStops == []PaginationSafety /\ <>(spc = "returned")

\* C18 witness: the third or a later request failed and the method returned
\* the URLs collected before, after a page that offered again a URL an
\* earlier page had offered
C18_Witness ==
    /\ spc = "returned"
    /\ pageNo >= 3
    /\ AnswerOf(pageNo).kind = "error"
    /\ listing_urls # <<>>
    /\ \E n \in 1..(pageNo - 1) : Accepted(n) \cap OfferedBefore(n) # {}

====
